---- MODULE Spec2Model ----
(***************************************************************************)
(* Model of src/src/index.ts (the XataClient-per-request variant, lines    *)
(* 130-254): the Hono handlers GET /query (answerQuery) and POST /notes    *)
(* (ingestNote), the three external calls they await (the embedding model, *)
(* the Xata Notes table, the text generation model) and the HTTP response  *)
(* each path produces.                                                     *)
(*                                                                         *)
(* Similarity scores are fixed-point numbers in tenths: 15 stands for 1.5. *)
(* An embedding vector is a sequence of numbers; only its length matters.  *)
(***************************************************************************)
EXTENDS Integers, Sequences, FiniteSets, TLC

VARIABLES
    store,        \* the Notes table: sequence of [id, text, embedding]
    op,           \* the handler running: "idle", "query" or "notes"
    pc,           \* the await the handler is suspended at, or "done"
    text,         \* `question` of /query, `text` of /notes
    embeddings,   \* what the embedding call resolved to
    results,      \* what vectorSearch resolved to
    notes,        \* `notes` of /query: the texts put in the context
    messages,     \* `messages` of /query: the input of the generation call
    res,          \* what the generation call resolved to
    inserted,     \* what Notes.create resolved to
    response,     \* the HTTP response of the request
    searchCalls,  \* vectorSearch calls made by the request
    genCalls,     \* generation calls made by the request
    insertCalls,  \* Notes.create calls made by the request
    storeBefore,  \* the Notes table when the request began
    created,      \* POST /notes requests answered 200 so far
    lastKind,     \* outcome kind of the previous finished request
    lastResponse  \* HTTP response of the previous finished request

vars == <<store, op, pc, text, embeddings, results, notes, messages, res, inserted,
          response, searchCalls, genCalls, insertCalls, storeBefore, created,
          lastKind, lastResponse>>

\* ---------------------------------------------------------------- bounds

MaxNotes == 3
MaxObservedNotes == 1
Dims == {2, 3}
NoteTexts == {"", "a", "b"}
Questions == {"", "What is 2+2?"}
GenTexts == {"", "4"}
\* scores in tenths; -1 is a record without a score
Scores == {-1, 0, 10, 15, 20}

\* ------------------------------------------------------ program constants

SIMILARITY_CUTOFF == 15
SEARCH_SIZE == 2
\* the score of a record that carries none
NoScore == -1

DefaultQuestion == "What is the square root of 9?"
systemPrompt == "You are a helpful assistant. When answering the question or responding, use the context provided, if it is provided and relevant."
NoResponse == "No response available"
UnableMessage == "Unable to process the AI response."

\* ------------------------------------------------------------- responses

NoHttp == [status |-> 0, body |-> ""]
Text(body) == [status |-> 200, body |-> body]
Json(record) == [status |-> 200, body |-> "{\"inserted\":" \o ToString(record) \o "}"]
HTTPException(status, message) == [status |-> status, body |-> message]
\* An error that is not an HTTPException leaves the handler uncaught: the app
\* registers no onError, so the framework answers with its default 500.
Uncaught == [status |-> 500, body |-> "Internal Server Error"]

\* ---------------------------------------------------------- embedding call

Vec(d) == [i \in 1..d |-> 0]

NoEmbeddings == [tag |-> "none", data |-> <<>>]
\* AI.run rejects; resolves to a value without `data`; resolves with `data`
\* an array holding no vector or one vector.
EmbedResults ==
    {[tag |-> "throw", data |-> <<>>], [tag |-> "nodata", data |-> <<>>],
     [tag |-> "ok", data |-> <<>>]}
    \cup {[tag |-> "ok", data |-> <<Vec(d)>>] : d \in Dims}

\* data[0]
First(data) ==
    IF Len(data) > 0 THEN [defined |-> TRUE, value |-> data[1]]
    ELSE [defined |-> FALSE, value |-> <<>>]

\* -------------------------------------------------------------- the store

NoResults == [tag |-> "none", records |-> <<>>]

Descending(recs) == \A i \in 1..(Len(recs) - 1) : recs[i].score >= recs[i + 1].score

\* vectorSearch: up to `size` distinct records of the table, by descending score
SearchResults(table, size) ==
    LET pick(n) == {f \in [1..n -> 1..Len(table)] : \A i, j \in 1..n : i # j => f[i] # f[j]}
        recsOf(f, s) == [i \in DOMAIN f |-> [text |-> table[f[i]].text, score |-> s[i]]]
        upTo == IF size < Len(table) THEN size ELSE Len(table)
    IN  {r \in UNION {{recsOf(f, s) : f \in pick(n), s \in [1..n -> Scores]} : n \in 0..upTo} :
            Descending(r)}

\* Notes.create: a new record with a fresh id
NewRecord(table, t, values) == [id |-> Len(table) + 1, text |-> t, embedding |-> values]

\* -------------------------------------------------------- /query, pure parts

\* record.xata.score ?? 0 > SIMILARITY_CUTOFF parses as score ?? (0 > CUTOFF):
\* the filter keeps a record iff its score is a truthy number.
Keep(record) ==
    IF record.score # NoScore THEN record.score # 0 ELSE 0 > SIMILARITY_CUTOFF

\* Mutant of Notes: the kept texts are collected in reverse order.
NotesReversed(records) ==
    LET kept == SelectSeq(records, Keep)
    IN  [i \in 1..Len(kept) |-> kept[Len(kept) + 1 - i].text]

Notes(records) ==
    IF Len(records) # 0
    THEN LET kept == SelectSeq(records, Keep) IN [i \in 1..Len(kept) |-> kept[i].text]
    ELSE <<>>

RECURSIVE Join(_)
Join(lines) ==
    IF Len(lines) = 0 THEN ""
    ELSE IF Len(lines) = 1 THEN lines[1]
    ELSE lines[1] \o "\n" \o Join(Tail(lines))

ContextMessage(ns) ==
    IF Len(ns) # 0 THEN "Context:\n" \o Join([i \in 1..Len(ns) |-> "- " \o ns[i]]) ELSE ""

\* Mutant of Messages: the context message is put after the instruction message.
MessagesContextSecond(ns, question) ==
    <<[role |-> "system", content |-> systemPrompt]>>
    \o (IF Len(ns) # 0 THEN <<[role |-> "system", content |-> ContextMessage(ns)]>> ELSE <<>>)
    \o <<[role |-> "user", content |-> question]>>

Messages(ns, question) ==
    (IF Len(ns) # 0 THEN <<[role |-> "system", content |-> ContextMessage(ns)]>> ELSE <<>>)
    \o <<[role |-> "system", content |-> systemPrompt],
         [role |-> "user", content |-> question]>>

\* ---------------------------------------------------------- generation call

NoRes == [tag |-> "none", hasResponse |-> FALSE, response |-> ""]
GenResults ==
    {[tag |-> t, hasResponse |-> FALSE, response |-> ""] :
        t \in {"throw", "stream", "nonobject", "null", "object"}}
    \cup {[tag |-> "object", hasResponse |-> TRUE, response |-> g] : g \in GenTexts}

\* Mutant of TextResponse: res.response || 'No response available'
TextResponseOr(r) == IF r.hasResponse /\ r.response # "" THEN r.response ELSE NoResponse

\* res.response ?? 'No response available'
TextResponse(r) == IF r.hasResponse THEN r.response ELSE NoResponse

\* Mutant of Missing: the handler does not test `values`.
MissingUnchecked(values) == FALSE

\* if (!values)
Missing(values) == ~values.defined

\* ------------------------------------------------------------ outcome kinds

EmbeddingFailed == embeddings.tag \in {"throw", "nodata"} \/ (embeddings.tag = "ok" /\ embeddings.data = <<>>)

\* The stage at which the request first failed, from what its calls returned.
Kind ==
    IF op = "notes" /\ text = "" THEN "ValidationFailure"
    ELSE IF EmbeddingFailed THEN "EmbeddingFailure"
    ELSE IF results.tag = "throw" THEN "StoreReadFailure"
    ELSE IF inserted \in {"throw", "falsy"} THEN "StoreWriteFailure"
    ELSE IF res.tag \in {"throw", "stream", "nonobject", "null"} THEN "GenerationFailure"
    ELSE "Success"

\* ---------------------------------------------------------------- initial

Init ==
    /\ store = <<>>
    /\ op = "idle"
    /\ pc = "idle"
    /\ text = ""
    /\ embeddings = NoEmbeddings
    /\ results = NoResults
    /\ notes = <<>>
    /\ messages = <<>>
    /\ res = NoRes
    /\ inserted = "none"
    /\ response = NoHttp
    /\ searchCalls = 0
    /\ genCalls = 0
    /\ insertCalls = 0
    /\ storeBefore = <<>>
    /\ created = 0
    /\ lastKind = "none"
    /\ lastResponse = NoHttp

\* ----------------------------------------------------------------- /query

QueryStart(q) ==
    /\ op = "idle"
    /\ op' = "query"
    /\ pc' = "embed"
    /\ text' = IF q # "" THEN q ELSE DefaultQuestion
    /\ storeBefore' = store
    /\ UNCHANGED <<store, embeddings, results, notes, messages, res, inserted, response,
                   searchCalls, genCalls, insertCalls, created, lastKind,
                   lastResponse>>

QueryEmbed(e) ==
    /\ op = "query" /\ pc = "embed"
    /\ embeddings' = e
    /\ IF e.tag \in {"throw", "nodata"}
       THEN response' = Uncaught /\ pc' = "done"
       ELSE response' = response /\ pc' = "search"
    /\ UNCHANGED <<store, op, text, results, notes, messages, res, inserted, searchCalls,
                   genCalls, insertCalls, storeBefore, created, lastKind, lastResponse>>

QuerySearchThrows ==
    /\ op = "query" /\ pc = "search"
    /\ searchCalls' = searchCalls + 1
    /\ results' = [tag |-> "throw", records |-> <<>>]
    /\ response' = Uncaught
    /\ pc' = "done"
    /\ UNCHANGED <<store, op, text, embeddings, notes, messages, res, inserted, genCalls,
                   insertCalls, storeBefore, created, lastKind, lastResponse>>

QuerySearch(records) ==
    /\ op = "query" /\ pc = "search"
    /\ searchCalls' = searchCalls + 1
    /\ results' = [tag |-> "ok", records |-> records]
    /\ notes' = Notes(records)
    /\ messages' = Messages(notes', text)
    /\ pc' = "generate"
    /\ UNCHANGED <<store, op, text, embeddings, res, inserted, response, genCalls,
                   insertCalls, storeBefore, created, lastKind, lastResponse>>

QueryGenerate(g) ==
    /\ op = "query" /\ pc = "generate"
    /\ genCalls' = genCalls + 1
    /\ res' = g
    /\ response' =
          IF g.tag \in {"throw", "null"} THEN Uncaught
          ELSE IF g.tag = "object" THEN Text(TextResponse(g))
          ELSE Text(UnableMessage)
    /\ pc' = "done"
    \* results, notes and messages are not read again
    /\ results' = NoResults
    /\ notes' = <<>>
    /\ messages' = <<>>
    /\ UNCHANGED <<store, op, text, embeddings, inserted, searchCalls, insertCalls,
                   storeBefore, created, lastKind, lastResponse>>

\* ----------------------------------------------------------------- /notes

\* Mutant of NotesStart: the note is inserted before it is embedded.
NotesStartEager(t) ==
    /\ op = "idle"
    /\ Len(store) < MaxNotes
    /\ op' = "notes"
    /\ text' = t
    /\ storeBefore' = store
    /\ IF t = ""
       THEN /\ response' = HTTPException(400, "Missing text")
            /\ pc' = "done"
            /\ store' = store
       ELSE /\ response' = response
            /\ pc' = "embed"
            /\ store' = Append(store, NewRecord(store, t, <<>>))
    /\ UNCHANGED <<embeddings, results, notes, messages, res, inserted, searchCalls,
                   genCalls, insertCalls, created, lastKind, lastResponse>>

NotesStart(t) ==
    /\ op = "idle"
    /\ Len(store) < MaxNotes
    /\ op' = "notes"
    /\ text' = t
    /\ storeBefore' = store
    /\ IF t = ""
       THEN response' = HTTPException(400, "Missing text") /\ pc' = "done"
       ELSE response' = response /\ pc' = "embed"
    /\ UNCHANGED <<store, embeddings, results, notes, messages, res, inserted,
                   searchCalls, genCalls, insertCalls, created, lastKind,
                   lastResponse>>

NotesEmbed(e) ==
    /\ op = "notes" /\ pc = "embed"
    /\ embeddings' = e
    /\ IF e.tag \in {"throw", "nodata"}
       THEN response' = Uncaught /\ pc' = "done"
       ELSE IF Missing(First(e.data))
       THEN response' = HTTPException(500, "Failed to create vector embedding") /\ pc' = "done"
       ELSE response' = response /\ pc' = "create"
    /\ UNCHANGED <<store, op, text, results, notes, messages, res, inserted, searchCalls,
                   genCalls, insertCalls, storeBefore, created, lastKind, lastResponse>>

NotesCreate(outcome) ==
    /\ op = "notes" /\ pc = "create"
    /\ insertCalls' = insertCalls + 1
    /\ inserted' = outcome
    /\ IF outcome = "ok"
       THEN LET record == NewRecord(store, text, First(embeddings.data).value) IN
            /\ store' = Append(store, record)
            /\ response' = Json(record)
            /\ created' = created + 1
       ELSE /\ store' = store
            /\ response' = IF outcome = "throw" THEN Uncaught
                            ELSE HTTPException(500, "Failed to create note")
            /\ created' = created
    /\ pc' = "done"
    /\ UNCHANGED <<op, text, embeddings, results, notes, messages, res, searchCalls,
                   genCalls, storeBefore, lastKind, lastResponse>>

\* ------------------------------------------------------- the handler returns

Return ==
    /\ pc = "done"
    /\ op' = "idle"
    /\ pc' = "idle"
    /\ text' = ""
    /\ embeddings' = NoEmbeddings
    /\ results' = NoResults
    /\ notes' = <<>>
    /\ messages' = <<>>
    /\ res' = NoRes
    /\ inserted' = "none"
    /\ response' = NoHttp
    /\ searchCalls' = 0
    /\ genCalls' = 0
    /\ insertCalls' = 0
    /\ storeBefore' = store
    /\ UNCHANGED <<store, created>>

Finish == Return /\ UNCHANGED <<lastKind, lastResponse>>

Next ==
    \/ \E q \in Questions : QueryStart(q)
    \/ \E e \in EmbedResults : QueryEmbed(e)
    \/ QuerySearchThrows
    \/ \E records \in SearchResults(store, SEARCH_SIZE) : QuerySearch(records)
    \/ \E g \in GenResults : QueryGenerate(g)
    \/ \E t \in NoteTexts : NotesStart(t)
    \/ \E e \in EmbedResults : NotesEmbed(e)
    \/ \E outcome \in {"ok", "falsy", "throw"} : NotesCreate(outcome)
    \/ Finish

Spec == Init /\ [][Next]_vars

\* ------------------------------------- the caller's view of two requests

\* The same handlers, the caller keeping the previous request's outcome and
\* response to compare with the next one's.
FinishObserved == Return /\ lastKind' = Kind /\ lastResponse' = response

NotesStartObserved(t) == Len(store) < MaxObservedNotes /\ NotesStart(t)

NextObserved ==
    \/ \E q \in Questions : QueryStart(q)
    \/ \E e \in EmbedResults : QueryEmbed(e)
    \/ QuerySearchThrows
    \/ \E records \in SearchResults(store, SEARCH_SIZE) : QuerySearch(records)
    \/ \E g \in GenResults : QueryGenerate(g)
    \/ \E t \in NoteTexts : NotesStartObserved(t)
    \/ \E e \in EmbedResults : NotesEmbed(e)
    \/ \E outcome \in {"ok", "falsy", "throw"} : NotesCreate(outcome)
    \/ FinishObserved

SpecObserved == Init /\ [][NextObserved]_vars

\* ------------------------------------------------------------------ claims

AtGenerationCall == op = "query" /\ pc = "generate"

Texts(records) == [i \in 1..Len(records) |-> records[i].text]

AboveCutoff(record) == record.score # NoScore /\ record.score > SIMILARITY_CUTOFF

\* s is t with some elements left out, the rest in t's order
IsSubsequence(s, t) ==
    \E f \in [1..Len(s) -> 1..Len(t)] :
        /\ \A i \in 1..Len(s) : s[i] = t[f[i]]
        /\ \A i, j \in 1..Len(s) : i < j => f[i] < f[j]

\* C1: the note texts placed in the context are exactly those of the search
\* results whose score is strictly greater than the cutoff, in the results' order;
\* a note scoring at or below the cutoff, or carrying no score, is left out.
C1_ContextIsAboveCutoff ==
    AtGenerationCall => notes = Texts(SelectSeq(results.records, AboveCutoff))

\* C2: the messages handed to the generation call are [system(instruction),
\* user(question)] when no note was selected and [system(context block),
\* system(instruction), user(question)] otherwise: the context message is there iff
\* a note was selected, it comes before the instruction, the user message is last.
C2_MessageSequence ==
    AtGenerationCall =>
        LET n == Len(messages) IN
        /\ n = IF notes = <<>> THEN 2 ELSE 3
        /\ messages[n] = [role |-> "user", content |-> text]
        /\ messages[n - 1] = [role |-> "system", content |-> systemPrompt]
        /\ n = 3 => /\ messages[1].role = "system"
                    /\ messages[1].content = ContextMessage(notes)
                    /\ messages[1].content # ""

C2_Witness == AtGenerationCall /\ Len(notes) = 2 /\ Len(messages) = 3

\* C3: when the embedding call of a query fails (it throws, or returns no data for
\* the question), neither the store search nor the generation call is invoked for
\* that request, and the request is not answered as a success.
C3_EmbeddingFailureStopsQuery ==
    (op = "query" /\ EmbeddingFailed) =>
        /\ searchCalls = 0
        /\ genCalls = 0
        /\ pc = "done" => response.status # 200

\* C4: a POST /notes request calls the store at most once, and only after the text
\* passed validation and the embedding call returned a vector; when the text is
\* empty or missing, or the embedding call fails, no insert is attempted and the
\* stored notes are unchanged.
C4_SingleWriteAfterEmbedding ==
    op = "notes" =>
        /\ insertCalls <= 1
        /\ insertCalls = 1 => /\ text # ""
                              /\ embeddings.tag = "ok"
                              /\ Len(embeddings.data) > 0
        /\ (text = "" \/ EmbeddingFailed) => /\ insertCalls = 0
                                             /\ store = storeBefore
                                             /\ pc = "done"
                                             /\ response.status \in {400, 500}
        /\ text = "" => response = [status |-> 400, body |-> "Missing text"]

C4_Witness ==
    /\ op = "notes" /\ pc = "done"
    /\ embeddings.tag = "ok" /\ embeddings.data = <<>>
    /\ storeBefore # <<>>
    /\ insertCalls = 0

\* C5: every stored note's embedding has the one dimensionality the embedding model
\* established, and an embedding of a dimensionality other than that of the notes
\* already stored is not handed to the store: the request fails instead.
C5_StoredEmbeddingsHaveOneDimension ==
    /\ \A i, j \in DOMAIN store : Len(store[i].embedding) = Len(store[j].embedding)
    /\ (/\ op = "notes"
        /\ storeBefore # <<>>
        /\ embeddings.tag = "ok"
        /\ Len(embeddings.data) > 0
        /\ Len(embeddings.data[1]) # Len(storeBefore[1].embedding))
       => insertCalls = 0

\* C6: when the generation call returns a stream or a value that is not an object,
\* the request is reported as failed, never as a successful text answer.
C6_UnexpectedShapeIsReportedFailed ==
    (op = "query" /\ pc = "done" /\ res.tag \in {"stream", "nonobject"}) =>
        response.status # 200

\* C7: when the generation call returns an object, the request succeeds: with the
\* object's text verbatim when it carries one (the empty text included), and with
\* "No response available" when it carries none.
C7_TextOrSentinel ==
    (op = "query" /\ pc = "done" /\ res.tag = "object") =>
        /\ response.status = 200
        /\ res.hasResponse => response.body = res.response
        /\ ~res.hasResponse => response.body = "No response available"

C7_Witness ==
    /\ op = "query" /\ pc = "done"
    /\ res.tag = "object" /\ ~res.hasResponse
    /\ response = [status |-> 200, body |-> "No response available"]

\* C8: what a request reports tells which stage failed: two requests that end with
\* the same response ended with the same outcome kind (one of the five failure
\* kinds, or success).
C8_ResponseIdentifiesKind ==
    (pc = "done" /\ lastKind # "none" /\ response = lastResponse) => Kind = lastKind

\* C9: the context holds at most 2 note texts, and they are texts of the search
\* results in the order the store returned them, rendered in that order.
C9_BoundedOrderedContext ==
    AtGenerationCall =>
        /\ Len(notes) <= 2
        /\ IsSubsequence(notes, Texts(results.records))
        /\ notes # <<>> => messages[1].content = ContextMessage(notes)
        /\ Len(notes) = 2 =>
              messages[1].content = "Context:\n- " \o notes[1] \o "\n- " \o notes[2]

C9_Witness ==
    /\ AtGenerationCall
    /\ Len(store) = 3
    /\ Len(notes) = 2
    /\ notes[1] # notes[2]

\* C10: the number of stored notes equals the number of POST /notes requests that
\* succeeded; a successful one appends exactly one note with a new id, also when
\* its text is already stored; queries and failed POST /notes requests leave the
\* stored notes as they were, and no request changes or removes a stored note.
C10_OneNotePerSuccessfulIngest ==
    /\ Len(store) = created
    /\ \A i, j \in DOMAIN store : i # j => store[i].id # store[j].id
    /\ Len(storeBefore) <= Len(store)
    /\ SubSeq(store, 1, Len(storeBefore)) = storeBefore
    /\ op = "query" => store = storeBefore /\ insertCalls = 0
    /\ (op = "notes" /\ pc = "done") =>
          IF response.status = 200
          THEN /\ Len(store) = Len(storeBefore) + 1
               /\ store[Len(store)].text = text
          ELSE store = storeBefore
    /\ (op = "notes" /\ pc # "done") => store = storeBefore

C10_Witness ==
    /\ op = "notes" /\ pc = "done" /\ response.status = 200
    /\ Len(store) = 2
    /\ store[1].text = store[2].text
    /\ store[1].id # store[2].id

====
